---- MODULE Spec2Model ----
(***************************************************************************)
(* Workout tracker: the worker's scheduled refresh job (bounded            *)
(* concurrency, idempotency keys, retry) and weekly cleanup sweep, and the *)
(* API's JWT authentication, rate limits, exercises and accounts.          *)
(*                                                                         *)
(* Specifications of this module:                                          *)
(*   Spec      refresh runs that may overlap, over the idempotency store   *)
(*             and the remote collection (services/worker);                *)
(*   SpecCron  the same with the runs back to back, as the cron starts     *)
(*             them;                                                       *)
(*   SpecRun   one refresh run (SpecRunFair: with fairness);               *)
(*   SpecAuth  token issue / decode / get_current_user and the limiter's   *)
(*             key for the same request (services/api);                    *)
(*   SpecPolicy  the quota policy get_rate_limit_for_request;              *)
(*   SpecQuota   the limiter counting GET /exercises of two users;         *)
(*   SpecOutage  the same for one user, the limiter's storage failing;     *)
(*   SpecSweep   one cleanup sweep over a store that holds still;          *)
(*   SpecSweepRun  a cleanup sweep interleaved with one refresh run;       *)
(*   SpecData    accounts and their exercises on either database;          *)
(*   SpecSession one token presented to the protected endpoints and to     *)
(*               POST /auth/refresh while the users table changes.         *)
(***************************************************************************)
EXTENDS Integers, FiniteSets, Sequences, TLC

(***************************************************************************)
(* Bounds of the model.                                                    *)
(***************************************************************************)
\* number of items the remote collection can hold
MaxItems == 2
\* settings.refresh__concurrency, scaled down from its default (5) so that
\* the semaphore is contended by MaxItems items
Concurrency == 1
\* settings.refresh__idempotency_ttl (3600 s) in clock ticks
TtlTicks == 1
(***************************************************************************)
(* Program constants.                                                      *)
(***************************************************************************)
\* settings.refresh__max_retries
MaxRetries == 3

Items == 1..MaxItems
\* the day the runs start in and the day after it
Days == {0, 1}
\* the two refresh runs (cron ticks or enqueued jobs) the claims speak of
Runs == {1, 2}

\* worker Settings: the refresh__* fields read by refresh_exercises
Settings ==
    [ refresh__concurrency     |-> Concurrency,
      refresh__max_retries     |-> MaxRetries,
      refresh__idempotency_ttl |-> TtlTicks ]

\* mutant: the wrong settings are passed for concurrency and retries
RefreshConfigSwapped ==
    [ max_concurrency |-> Settings.refresh__max_retries,
      max_retries     |-> Settings.refresh__concurrency,
      idempotency_ttl |-> Settings.refresh__idempotency_ttl ]

\* RefreshConfig(...) as refresh_exercises builds it from the settings
RefreshConfig ==
    [ max_concurrency |-> Settings.refresh__concurrency,
      max_retries     |-> Settings.refresh__max_retries,
      idempotency_ttl |-> Settings.refresh__idempotency_ttl ]

VARIABLES
    \* ---- refresh job ----
    remote,     \* the remote collection: the set of item ids it holds
    store,      \* idempotency store: key -> remaining TTL in ticks, 0 = absent
    day,        \* current calendar day (the idempotency window)
    pc,         \* per run: "idle", "listing", "list_error", "running",
                \* "done", "raised"
    listed,     \* per run: the items its listing returned
    st,         \* per run and item: the item's state in the run
    fails,      \* per run and item: failed remote attempts so far
    counters,   \* per run: [processed, skipped, failed] of the refresher
    result,     \* per run: what refresh_exercises returned to the scheduler
    disturbed,  \* since Init a key expired, the day changed, or an
                \* idempotency-store call failed (store unreachable)
    \* ---- API authentication ----
    clock,      \* current time in seconds
    users,      \* the users table: id -> row
    token,      \* the Authorization header / token string under examination
    issued,     \* how that token came about (the arguments it was made from)
    decoded,    \* what decode_token returned for it, if it was called
    response,   \* the protected endpoint's answer to it, if it was requested
    \* ---- quota policy ----
    call,       \* the (path, method, key) get_rate_limit_for_request is given
    limit,      \* the limit it returned, if it was called
    \* ---- rate limiter ----
    hits,       \* limiter storage: key -> counter of the current window
    sent,       \* user -> requests the user made in the current window
    storeUp,    \* the limiter's storage (Redis) is reachable
    verdict,    \* the limiter's answer to the latest request
    \* ---- cleanup sweep ----
    persist,    \* idempotency keys present in the store without a TTL
    seconds,    \* key -> what TTL reports for it while it is present
    foreign,    \* names present in the store outside the idempotency prefix
    sweep,      \* cleanup_stale_data's locals and position
    deletedKeys,    \* << name, ttl >> of every key the sweep's DEL removed
    sweepResult,    \* what cleanup_stale_data returned to the scheduler
    \* ---- exercises and accounts ----
    accounts,   \* the users table as the exercise endpoints see it
    exercises,  \* the exercises table: id -> row
    backend,    \* the database the API runs on
    userSeq,    \* the last value of the users id sequence
    ownerless,  \* ids of the exercises whose owner's account was deleted
    reply,      \* the latest answer of an exercise or account endpoint
    \* ---- token refresh ----
    mints,      \* token pairs POST /auth/refresh has minted for the token
    renewal     \* the latest answer of POST /auth/refresh

refreshVars ==
    << remote, store, day, pc, listed, st, fails, counters, result,
       disturbed >>

authVars == << clock, users, token, issued, decoded, response >>

policyVars == << call, limit >>

quotaVars == << hits, sent, storeUp, verdict >>

sweepVars == << persist, seconds, foreign, sweep, deletedKeys, sweepResult >>

dataVars == << accounts, exercises, backend, userSeq, ownerless, reply >>

sessionVars == << mints, renewal >>

vars ==
    << refreshVars, authVars, policyVars, quotaVars, sweepVars, dataVars,
       sessionVars >>

(***************************************************************************)
(* Idempotency store.                                                      *)
(***************************************************************************)
Keys == Items \X Days

\* idempotency:refresh:<item-id>:<date>
IdempotencyKey(i, d) == << i, d >>

\* EXISTS key
IsMarked(s, k) == s[k] > 0

\* SET key 1 EX ttl (re-setting resets the TTL)
MarkKey(s, k, ttl) == [s EXCEPT ![k] = ttl]

(***************************************************************************)
(* Run summary.                                                            *)
(***************************************************************************)
NoResult ==
    [ kind |-> "none", processed |-> 0, skipped |-> 0, failed |-> 0,
      total |-> 0, success_rate |-> 0 ]

RaisedResult == [NoResult EXCEPT !.kind = "exception"]

\* ExerciseRefresher.get_summary(): success_rate in whole percent
GetSummary(c) ==
    LET total == c.processed + c.skipped + c.failed
    IN  [ processed    |-> c.processed,
          skipped      |-> c.skipped,
          failed       |-> c.failed,
          total        |-> total,
          success_rate |-> IF total = 0 THEN 0
                           ELSE (100 * c.processed) \div total ]

\* mutant: the returned dict takes "total" from the processed count
ReturnSummaryWrongTotal(summary) ==
    [ kind         |-> "summary",
      processed    |-> summary.processed,
      skipped      |-> summary.skipped,
      failed       |-> summary.failed,
      total        |-> summary.processed,
      success_rate |-> summary.success_rate ]

\* mutant: the returned dict swaps the processed and skipped counts
ReturnSummarySwapped(summary) ==
    [ kind         |-> "summary",
      processed    |-> summary.skipped,
      skipped      |-> summary.processed,
      failed       |-> summary.failed,
      total        |-> summary.total,
      success_rate |-> summary.success_rate ]

\* the dict refresh_exercises returns
ReturnSummary(summary) ==
    [ kind         |-> "summary",
      processed    |-> summary.processed,
      skipped      |-> summary.skipped,
      failed       |-> summary.failed,
      total        |-> summary.total,
      success_rate |-> summary.success_rate ]

(***************************************************************************)
(* Item states of a run.                                                   *)
(*   NotListed   not part of this run's listing                            *)
(*   Pending     waiting for a semaphore slot                              *)
(*   Acquired    slot held, is_marked not yet answered                     *)
(*   Processing  slot held, remote call being attempted / backing off      *)
(*   Called      slot held, remote call succeeded (the remote item is      *)
(*               refreshed), mark not yet written                          *)
(*   Skipped, Succeeded, Failed   resolved                                 *)
(***************************************************************************)
InFlightStates == {"Acquired", "Processing", "Called"}
ResolvedStates == {"Skipped", "Succeeded", "Failed"}
\* the run's remote refresh call for the item has succeeded
RefreshedStates == {"Called", "Succeeded"}

InFlight(r) == {i \in Items : st[r][i] \in InFlightStates}

ZeroCounters == [processed |-> 0, skipped |-> 0, failed |-> 0]

RefreshInit ==
    \* item ids are interchangeable: a collection of n items holds 1..n
    /\ remote \in {1..n : n \in 0..MaxItems}
    \* keys of the current day left by earlier runs, each with a TTL
    /\ store \in {s \in [Keys -> 0..TtlTicks] :
                    \A k \in Keys : k[2] # 0 => s[k] = 0}
    /\ day = 0
    /\ pc = [r \in Runs |-> "idle"]
    /\ listed = [r \in Runs |-> {}]
    /\ st = [r \in Runs |-> [i \in Items |-> "NotListed"]]
    /\ fails = [r \in Runs |-> [i \in Items |-> 0]]
    /\ counters = [r \in Runs |-> ZeroCounters]
    /\ result = [r \in Runs |-> NoResult]
    /\ disturbed = FALSE

\* the scheduler starts refresh_exercises: settings read, config built,
\* the refresher entered
StartRun(r) ==
    /\ pc[r] = "idle"
    \* runs are numbered in the order they start
    /\ \A q \in Runs : q < r => pc[q] # "idle"
    /\ pc' = [pc EXCEPT ![r] = "listing"]
    /\ UNCHANGED << remote, store, day, listed, st, fails, counters, result,
                    disturbed >>
    /\ UNCHANGED << authVars, policyVars, quotaVars, sweepVars, dataVars,
                    sessionVars >>

\* refresh_all: the listing succeeds; every listed item becomes Pending
ListItems(r) ==
    /\ pc[r] = "listing"
    /\ pc' = [pc EXCEPT ![r] = "running"]
    /\ listed' = [listed EXCEPT ![r] = remote]
    /\ st' = [st EXCEPT ![r] =
                [i \in Items |-> IF i \in remote THEN "Pending"
                                 ELSE "NotListed"]]
    /\ UNCHANGED << remote, store, day, fails, counters, result,
                    disturbed >>
    /\ UNCHANGED << authVars, policyVars, quotaVars, sweepVars, dataVars,
                    sessionVars >>

\* refresh_all: the listing fails and refresh_all raises
ListFails(r) ==
    /\ pc[r] = "listing"
    /\ pc' = [pc EXCEPT ![r] = "list_error"]
    /\ UNCHANGED << remote, store, day, listed, st, fails, counters,
                    result, disturbed >>
    /\ UNCHANGED << authVars, policyVars, quotaVars, sweepVars, dataVars,
                    sessionVars >>

\* mutant: giving up on an item raises out of refresh_all
AttemptRaises(r, i, ok) ==
    /\ pc[r] = "running"
    /\ st[r][i] = "Processing"
    /\ IF ok
       THEN /\ st' = [st EXCEPT ![r][i] = "Called"]
            /\ UNCHANGED << fails, counters, pc >>
       ELSE /\ fails' = [fails EXCEPT ![r][i] = @ + 1]
            /\ UNCHANGED << st, counters >>
            /\ pc' = IF fails[r][i] + 1 >= RefreshConfig.max_retries
                      THEN [pc EXCEPT ![r] = "list_error"]
                      ELSE pc
    /\ UNCHANGED << remote, store, day, listed, result, disturbed >>
    /\ UNCHANGED << authVars, policyVars, quotaVars, sweepVars, dataVars,
                    sessionVars >>

\* mutant: the task catches the listing error and returns an empty summary
SwallowListError(r) ==
    /\ pc[r] = "list_error"
    /\ pc' = [pc EXCEPT ![r] = "done"]
    /\ result' = [result EXCEPT ![r] = ReturnSummary(GetSummary(ZeroCounters))]
    /\ UNCHANGED << remote, store, day, listed, st, fails, counters,
                    disturbed >>
    /\ UNCHANGED << authVars, policyVars, quotaVars, sweepVars, dataVars,
                    sessionVars >>

\* refresh_exercises has no handler around refresh_all: the exception
\* leaves the "async with" block and the task, and no dict is returned
PropagateListError(r) ==
    /\ pc[r] = "list_error"
    /\ pc' = [pc EXCEPT ![r] = "raised"]
    /\ result' = [result EXCEPT ![r] = RaisedResult]
    /\ UNCHANGED << remote, store, day, listed, st, fails, counters,
                    disturbed >>
    /\ UNCHANGED << authVars, policyVars, quotaVars, sweepVars, dataVars,
                    sessionVars >>

\* a Pending item takes a semaphore slot when fewer than max_concurrency
\* are held
Acquire(r, i) ==
    /\ pc[r] = "running"
    /\ st[r][i] = "Pending"
    /\ Cardinality(InFlight(r)) < RefreshConfig.max_concurrency
    /\ st' = [st EXCEPT ![r][i] = "Acquired"]
    /\ UNCHANGED << remote, store, day, pc, listed, fails, counters, result,
                    disturbed >>
    /\ UNCHANGED << authVars, policyVars, quotaVars, sweepVars, dataVars,
                    sessionVars >>

\* mutant: the key is written when the item is about to be processed
CheckMarkedMarksFirst(r, i, storeOk) ==
    /\ pc[r] = "running"
    /\ st[r][i] = "Acquired"
    /\ IF storeOk /\ IsMarked(store, IdempotencyKey(i, day))
       THEN /\ st' = [st EXCEPT ![r][i] = "Skipped"]
            /\ counters' = [counters EXCEPT ![r].skipped = @ + 1]
            /\ UNCHANGED store
       ELSE /\ st' = [st EXCEPT ![r][i] = "Processing"]
            /\ store' = IF storeOk
                        THEN MarkKey(store, IdempotencyKey(i, day),
                                     RefreshConfig.idempotency_ttl)
                        ELSE store
            /\ UNCHANGED counters
    /\ disturbed' = (disturbed \/ ~storeOk)
    /\ UNCHANGED << remote, day, pc, listed, fails, result >>
    /\ UNCHANGED << authVars, policyVars, quotaVars, sweepVars, dataVars,
                    sessionVars >>

\* is_marked(key): a marked item is skipped; an unreachable store answers
\* nothing and the item is processed without idempotency protection
CheckMarked(r, i, storeOk) ==
    /\ pc[r] = "running"
    /\ st[r][i] = "Acquired"
    /\ IF storeOk /\ IsMarked(store, IdempotencyKey(i, day))
       THEN /\ st' = [st EXCEPT ![r][i] = "Skipped"]
            /\ counters' = [counters EXCEPT ![r].skipped = @ + 1]
       ELSE /\ st' = [st EXCEPT ![r][i] = "Processing"]
            /\ UNCHANGED counters
    /\ disturbed' = (disturbed \/ ~storeOk)
    /\ UNCHANGED << remote, store, day, pc, listed, fails, result >>
    /\ UNCHANGED << authVars, policyVars, quotaVars, sweepVars, dataVars,
                    sessionVars >>

\* one attempt of the remote refresh call, then (on failure) the backoff
\* sleep or, after max_retries failures, giving up
Attempt(r, i, ok) ==
    /\ pc[r] = "running"
    /\ st[r][i] = "Processing"
    /\ IF ok
       THEN /\ st' = [st EXCEPT ![r][i] = "Called"]
            /\ UNCHANGED << fails, counters >>
       ELSE /\ fails' = [fails EXCEPT ![r][i] = @ + 1]
            /\ IF fails[r][i] + 1 >= RefreshConfig.max_retries
               THEN /\ st' = [st EXCEPT ![r][i] = "Failed"]
                    /\ counters' = [counters EXCEPT ![r].failed = @ + 1]
               ELSE UNCHANGED << st, counters >>
    /\ UNCHANGED << remote, store, day, pc, listed, result, disturbed >>
    /\ UNCHANGED << authVars, policyVars, quotaVars, sweepVars, dataVars,
                    sessionVars >>

\* after a successful call: mark(key, idempotency_ttl), processed += 1
Mark(r, i, storeOk) ==
    /\ pc[r] = "running"
    /\ st[r][i] = "Called"
    /\ store' = IF storeOk
                THEN MarkKey(store, IdempotencyKey(i, day),
                             RefreshConfig.idempotency_ttl)
                ELSE store
    /\ st' = [st EXCEPT ![r][i] = "Succeeded"]
    /\ counters' = [counters EXCEPT ![r].processed = @ + 1]
    /\ disturbed' = (disturbed \/ ~storeOk)
    /\ UNCHANGED << remote, day, pc, listed, fails, result >>
    /\ UNCHANGED << authVars, policyVars, quotaVars, sweepVars, dataVars,
                    sessionVars >>

\* every item resolved: get_summary(), leave the refresher, return the dict
Finish(r) ==
    /\ pc[r] = "running"
    /\ \A i \in listed[r] : st[r][i] \in ResolvedStates
    /\ pc' = [pc EXCEPT ![r] = "done"]
    /\ result' = [result EXCEPT ![r] = ReturnSummary(GetSummary(counters[r]))]
    \* the refresher object ends with the "async with" block
    /\ st' = [st EXCEPT ![r] = [i \in Items |-> "NotListed"]]
    /\ fails' = [fails EXCEPT ![r] = [i \in Items |-> 0]]
    /\ counters' = [counters EXCEPT ![r] = ZeroCounters]
    /\ UNCHANGED << remote, store, day, listed, disturbed >>
    /\ UNCHANGED << authVars, policyVars, quotaVars, sweepVars, dataVars,
                    sessionVars >>

\* the clock advances one tick: every TTL shrinks, keys at the end of their
\* TTL vanish, and the tick may cross midnight
Tick(newDay) ==
    /\ newDay => day + 1 \in Days
    /\ ~newDay => \E k \in Keys : store[k] > 0
    /\ store' = [k \in Keys |-> IF store[k] > 0 THEN store[k] - 1 ELSE 0]
    /\ day' = IF newDay THEN day + 1 ELSE day
    /\ disturbed' = (disturbed \/ newDay \/ \E k \in Keys : store[k] = 1)
    /\ UNCHANGED << remote, pc, listed, st, fails, counters, result >>
    /\ UNCHANGED << authVars, policyVars, quotaVars, sweepVars, dataVars,
                    sessionVars >>

(***************************************************************************)
(* API authentication (services/api/src/auth.py).                          *)
(***************************************************************************)
\* seconds the clock can advance
MaxClock == 3

ACCESS_TOKEN_EXPIRE_MINUTES == 30
REFRESH_TOKEN_EXPIRE_DAYS == 7

\* SECRET_KEY, and the key of a token signed elsewhere
SECRET_KEY == "dev-secret-key-change-in-production"
OtherKey == "different-secret"
SigningKeys == {SECRET_KEY, OtherKey}

\* a key the dict does not hold
Absent == "absent"

UserIds == {1}
Roles == {"admin", "user", "readonly"}

\* a row of the users table; NoUser stands for "no row with this id"
NoUser == [exists |-> FALSE, role |-> "user", disabled |-> FALSE]
UserRows == [exists : {TRUE}, role : Roles, disabled : BOOLEAN] \cup {NoUser}

\* the claims a caller passes as data: "sub" an existing id, an unknown id,
\* a non-numeric subject, or missing; "role" a role or missing
SubClaims == {"1", "2", "testuser", Absent}
RoleClaims == {"admin", "user", Absent}
ClaimSets == [sub : SubClaims, role : RoleClaims, type : {Absent}]

\* expires_delta: None, or a timedelta of so many seconds
NoDelta == [given |-> FALSE, seconds |-> 0]
Deltas == {NoDelta} \cup [given : {TRUE}, seconds : {-1, 0, 1, 2}]

NoPayload == [sub |-> Absent, role |-> Absent, type |-> Absent, exp |-> 0]

\* Authorization header values that carry no JWT: no header at all, another
\* scheme, "Bearer" with empty credentials, and a string that is no JWT
NoHeader == [form |-> "absent", payload |-> NoPayload, key |-> "none"]
BasicHeader == [form |-> "basic", payload |-> NoPayload, key |-> "none"]
EmptyToken == [form |-> "empty", payload |-> NoPayload, key |-> "none"]
MalformedToken == [form |-> "malformed", payload |-> NoPayload, key |-> "none"]
NonJwt == {NoHeader, BasicHeader, EmptyToken, MalformedToken}

\* jwt.encode(payload, key, algorithm=ALGORITHM): the payload signed with key
JwtEncode(payload, key) == [form |-> "jwt", payload |-> payload, key |-> key]

\* "if expires_delta:" -- None and timedelta(0) are both falsy
Truthy(delta) == delta.given /\ delta.seconds # 0

\* create_access_token(data, expires_delta, secret_key) at time now
CreateAccessToken(data, expires_delta, secret_key, now) ==
    LET expire == IF Truthy(expires_delta)
                  THEN now + expires_delta.seconds
                  ELSE now + ACCESS_TOKEN_EXPIRE_MINUTES * 60
    IN  JwtEncode([sub |-> data.sub, role |-> data.role, type |-> data.type,
                   exp |-> expire], secret_key)

\* str(user_id)
IdToStr(id) == IF id = 1 THEN "1" ELSE "2"

\* create_refresh_token(user_id, secret_key) at time now
CreateRefreshToken(user_id, secret_key, now) ==
    JwtEncode([sub |-> IdToStr(user_id), role |-> Absent, type |-> "refresh",
               exp |-> now + REFRESH_TOKEN_EXPIRE_DAYS * 86400], secret_key)

\* jwt.decode(token, key, algorithms=[ALGORITHM]) at time now: the payload,
\* or the exception it raises (segments, then signature, then expiry)
JwtDecode(tok, key, now) ==
    IF tok.form # "jwt"
    THEN [exc |-> "DecodeError", payload |-> NoPayload]
    ELSE IF tok.key # key
    THEN [exc |-> "InvalidSignatureError", payload |-> NoPayload]
    ELSE IF tok.payload.exp <= now
    THEN [exc |-> "ExpiredSignatureError", payload |-> NoPayload]
    ELSE [exc |-> "none", payload |-> tok.payload]

\* the exception classes derived from jwt.InvalidTokenError
IsInvalidTokenError(exc) ==
    exc \in {"InvalidTokenError", "DecodeError", "InvalidSignatureError",
             "ExpiredSignatureError"}

NotDecoded == [kind |-> "none", payload |-> NoPayload, exc |-> "none"]
Null == [kind |-> "null", payload |-> NoPayload, exc |-> "none"]

\* mutant: only the expiry exception is caught
DecodeTokenExpiredOnly(tok, secret_key, now) ==
    LET r == JwtDecode(tok, secret_key, now)
    IN  IF r.exc = "none"
        THEN [kind |-> "payload", payload |-> r.payload, exc |-> "none"]
        ELSE IF r.exc = "ExpiredSignatureError" THEN Null
        ELSE [kind |-> "raised", payload |-> NoPayload, exc |-> r.exc]

\* decode_token(token, secret_key) at time now
DecodeToken(tok, secret_key, now) ==
    LET r == JwtDecode(tok, secret_key, now)
    IN  IF r.exc = "none"
        THEN [kind |-> "payload", payload |-> r.payload, exc |-> "none"]
        ELSE IF r.exc = "ExpiredSignatureError" THEN Null
        ELSE IF IsInvalidTokenError(r.exc) THEN Null
        ELSE [kind |-> "raised", payload |-> NoPayload, exc |-> r.exc]

\* HTTPBearer(auto_error=False): the credentials, or None when the header is
\* missing, names another scheme or carries no credentials
BearerScheme(header) ==
    IF header.form \in {"absent", "basic", "empty"}
    THEN [present |-> FALSE, credentials |-> NoHeader]
    ELSE [present |-> TRUE, credentials |-> header]

\* int(user_id_str): the id, or 0 for ValueError
StrToId(str) == IF str = "1" THEN 1 ELSE IF str = "2" THEN 2 ELSE 0

\* session.get(UserTable, user_id)
GetUser(table, id) == IF id \in DOMAIN table THEN table[id] ELSE NoUser

CredentialsException ==
    [status |-> 401, detail |-> "Could not validate credentials",
     user |-> NoUser]

\* mutant: a missing header is answered as HTTPBearer's auto_error would
GetCurrentUserAutoError(header, table, now) ==
    LET cred == BearerScheme(header)
        payload == DecodeToken(cred.credentials, SECRET_KEY, now)
    IN  IF ~cred.present
        THEN [status |-> 403, detail |-> "Not authenticated", user |-> NoUser]
        ELSE IF payload.kind # "payload" THEN CredentialsException
        ELSE IF payload.payload.sub = Absent THEN CredentialsException
        ELSE IF StrToId(payload.payload.sub) = 0 THEN CredentialsException
        ELSE LET user == GetUser(table, StrToId(payload.payload.sub))
             IN  IF ~user.exists THEN CredentialsException
                 ELSE IF user.disabled
                 THEN [status |-> 403, detail |-> "User account is disabled",
                       user |-> NoUser]
                 ELSE [status |-> 200, detail |-> "", user |-> user]

\* mutant: the disabled flag of the row is not looked at
GetCurrentUserSkipDisabled(header, table, now) ==
    LET cred == BearerScheme(header)
        payload == DecodeToken(cred.credentials, SECRET_KEY, now)
    IN  IF ~cred.present THEN CredentialsException
        ELSE IF payload.kind # "payload" THEN CredentialsException
        ELSE IF payload.payload.sub = Absent THEN CredentialsException
        ELSE IF StrToId(payload.payload.sub) = 0 THEN CredentialsException
        ELSE LET user == GetUser(table, StrToId(payload.payload.sub))
             IN  IF ~user.exists THEN CredentialsException
                 ELSE [status |-> 200, detail |-> "", user |-> user]

\* mutant: the identity is taken from the token's claims, the users table
\* is not read
GetCurrentUserFromClaims(header, table, now) ==
    LET cred == BearerScheme(header)
        payload == DecodeToken(cred.credentials, SECRET_KEY, now)
    IN  IF ~cred.present THEN CredentialsException
        ELSE IF payload.kind # "payload" THEN CredentialsException
        ELSE IF payload.payload.sub = Absent THEN CredentialsException
        ELSE IF StrToId(payload.payload.sub) = 0 THEN CredentialsException
        ELSE [status |-> 200, detail |-> "",
              user |-> [exists |-> TRUE,
                        role |-> IF payload.payload.role = Absent
                                 THEN "user" ELSE payload.payload.role,
                        disabled |-> FALSE]]

\* get_current_user(credentials, session) at time now: the user row
\* (status 200) or the HTTPException raised
GetCurrentUser(header, table, now) ==
    LET cred == BearerScheme(header)
        payload == DecodeToken(cred.credentials, SECRET_KEY, now)
    IN  IF ~cred.present THEN CredentialsException
        ELSE IF payload.kind # "payload" THEN CredentialsException
        ELSE IF payload.payload.sub = Absent THEN CredentialsException
        ELSE IF StrToId(payload.payload.sub) = 0 THEN CredentialsException
        ELSE LET user == GetUser(table, StrToId(payload.payload.sub))
             IN  IF ~user.exists THEN CredentialsException
                 ELSE IF user.disabled
                 THEN [status |-> 403, detail |-> "User account is disabled",
                       user |-> NoUser]
                 ELSE [status |-> 200, detail |-> "", user |-> user]

\* mutant: role_checker passes every resolved identity through
RequireRolePassThrough(allowed, current) == current

\* require_role(*allowed_roles): role_checker over get_current_user
RequireRole(allowed, current) ==
    IF current.status # 200 THEN current
    ELSE IF current.user.role \notin allowed
    THEN [status |-> 403, detail |-> "Role not authorized", user |-> NoUser]
    ELSE current

\* the protected endpoints of api.py and the dependency each declares
ProtectedEndpoints ==
    [ name : {"GET /exercises", "GET /exercises/{id}", "POST /exercises",
              "PATCH /exercises/{id}", "DELETE /exercises/{id}",
              "POST /exercises/seed", "GET /auth/me", "PATCH /auth/me",
              "DELETE /auth/me"},
      dep : {"get_current_user"} ]
    \cup
    [ name : {"GET /admin/users", "DELETE /admin/exercises/{id}"},
      dep : {"require_admin"} ]

AdminEndpoints == {e.name : e \in {p \in ProtectedEndpoints :
                                        p.dep = "require_admin"}}

\* the dependency of an endpoint resolved for a request
ResolveDependency(e, header, table, now) ==
    IF e.dep = "require_admin"
    THEN RequireRole({"admin"}, GetCurrentUser(header, table, now))
    ELSE GetCurrentUser(header, table, now)

(***************************************************************************)
(* Rate-limit key (services/api/src/ratelimit/__init__.py).                *)
(* A key string is held as the sequence of its ":"-separated parts, what   *)
(* key.split(":") returns: "user:1:admin" is << "user", "1", "admin" >>.   *)
(***************************************************************************)
\* where a request comes from: the addresses of its X-Forwarded-For header
\* (none when the header is missing) and request.client (host, or None)
NoClient == "None"
Sources ==
    { [forwarded |-> << >>, client |-> "10.0.0.1"],
      [forwarded |-> << "203.0.113.7", "10.0.0.1" >>, client |-> "10.0.0.1"],
      [forwarded |-> << >>, client |-> NoClient] }

\* a request without X-Forwarded-For
DirectSource == [forwarded |-> << >>, client |-> "10.0.0.1"]

\* the address the anonymous key is built from
ClientIp(source) ==
    IF Len(source.forwarded) > 0 /\ source.forwarded[1] # ""
    THEN source.forwarded[1]
    ELSE IF source.client # NoClient THEN source.client ELSE "unknown"

\* mutant: the role claim is dropped from the key
GetRateLimitKeyNoRole(header, source, now) ==
    LET r == JwtDecode(header, SECRET_KEY, now)
    IN  IF /\ header.form \in {"empty", "malformed", "jwt"}
           /\ r.exc = "none"
           /\ r.payload.sub \notin {Absent, ""}
        THEN << "user", r.payload.sub >>
        ELSE << "ip", ClientIp(source) >>

\* get_rate_limit_key(request) at time now; headers of the forms "empty",
\* "malformed" and "jwt" start with "Bearer ".  An exception that is no
\* jwt.InvalidTokenError leaves the function.
GetRateLimitKey(header, source, now) ==
    LET r == JwtDecode(header, SECRET_KEY, now)
        username == r.payload.sub
        role == IF r.payload.role = Absent THEN "user" ELSE r.payload.role
    IN  IF header.form \notin {"empty", "malformed", "jwt"}
        THEN << "ip", ClientIp(source) >>
        ELSE IF r.exc = "none"
        THEN IF username \notin {Absent, ""}
             THEN << "user", username, role >>
             ELSE << "ip", ClientIp(source) >>
        ELSE IF IsInvalidTokenError(r.exc)
        THEN << "ip", ClientIp(source) >>
        ELSE << "raised", r.exc >>

NotIssued ==
    [by |-> "none", data |-> [sub |-> Absent, role |-> Absent, type |-> Absent],
     delta |-> NoDelta, key |-> "none", at |-> 0]
NoKey == << >>
NoResponse ==
    [endpoint |-> "none", status |-> 0, detail |-> "", user |-> NoUser,
     key |-> NoKey]

AuthInit ==
    /\ clock = 0
    /\ users \in [UserIds -> UserRows]
    /\ token = NoHeader
    /\ issued = NotIssued
    /\ decoded = NotDecoded
    /\ response = NoResponse

\* the API with no request under way, for the worker's specifications
AuthIdle ==
    /\ clock = 0
    /\ users = [id \in UserIds |-> NoUser]
    /\ token = NoHeader
    /\ issued = NotIssued
    /\ decoded = NotDecoded
    /\ response = NoResponse

\* the worker with no run under way, for the API's specification
RefreshIdle ==
    /\ remote = {}
    /\ store = [k \in Keys |-> 0]
    /\ day = 0
    /\ pc = [r \in Runs |-> "idle"]
    /\ listed = [r \in Runs |-> {}]
    /\ st = [r \in Runs |-> [i \in Items |-> "NotListed"]]
    /\ fails = [r \in Runs |-> [i \in Items |-> 0]]
    /\ counters = [r \in Runs |-> ZeroCounters]
    /\ result = [r \in Runs |-> NoResult]
    /\ disturbed = FALSE

\* Each behaviour follows one token: it is made once, at any time, and
\* then decoded and presented as the clock advances.  decoded and response
\* hold the outcome of the latest call and the latest request; the next
\* call is made once the outcome has been dropped (AuthTick, Promote).

\* a caller makes an access token
IssueAccess(data, delta, key) ==
    /\ issued.by = "none"
    /\ token' = CreateAccessToken(data, delta, key, clock)
    /\ issued' = [by |-> "access", data |-> data, delta |-> delta,
                  key |-> key, at |-> clock]
    /\ decoded' = NotDecoded
    /\ response' = NoResponse
    /\ UNCHANGED << clock, users >>
    /\ UNCHANGED << refreshVars, policyVars, quotaVars, sweepVars, dataVars,
                    sessionVars >>

\* a login makes a refresh token for a user id
IssueRefresh(id, key) ==
    /\ issued.by = "none"
    /\ token' = CreateRefreshToken(id, key, clock)
    /\ issued' = [NotIssued EXCEPT !.by = "refresh", !.key = key, !.at = clock]
    /\ decoded' = NotDecoded
    /\ response' = NoResponse
    /\ UNCHANGED << clock, users >>
    /\ UNCHANGED << refreshVars, policyVars, quotaVars, sweepVars, dataVars,
                    sessionVars >>

\* a user signs in (login, register, Google sign-in): the access token
\* carries the user's id and the role of the row at that time
Login(id) ==
    /\ issued.by = "none"
    /\ users[id].exists
    /\ LET data == [sub |-> IdToStr(id), role |-> users[id].role,
                    type |-> Absent]
           delta == [given |-> TRUE,
                     seconds |-> ACCESS_TOKEN_EXPIRE_MINUTES * 60]
       IN  /\ token' = CreateAccessToken(data, delta, SECRET_KEY, clock)
           /\ issued' = [by |-> "login", data |-> data, delta |-> delta,
                         key |-> SECRET_KEY, at |-> clock]
    /\ decoded' = NotDecoded
    /\ response' = NoResponse
    /\ UNCHANGED << clock, users >>
    /\ UNCHANGED << refreshVars, policyVars, quotaVars, sweepVars, dataVars,
                    sessionVars >>

\* manage.py promote: an operator gives the user another role
Promote(id, role) ==
    /\ users[id].exists
    /\ users[id].role # role
    /\ users' = [users EXCEPT ![id].role = role]
    /\ decoded' = NotDecoded
    /\ response' = NoResponse
    /\ UNCHANGED << clock, token, issued >>
    /\ UNCHANGED << refreshVars, policyVars, quotaVars, sweepVars, dataVars,
                    sessionVars >>

\* a client sends something that is no JWT
Forge(header) ==
    /\ issued.by = "none"
    /\ token' = header
    /\ issued' = [NotIssued EXCEPT !.by = "forged", !.at = clock]
    /\ decoded' = NotDecoded
    /\ response' = NoResponse
    /\ UNCHANGED << clock, users >>
    /\ UNCHANGED << refreshVars, policyVars, quotaVars, sweepVars, dataVars,
                    sessionVars >>

\* decode_token(token) is called with the service's secret
Decode ==
    /\ issued.by # "none"
    /\ decoded = NotDecoded
    /\ token.form \notin {"absent", "basic"}
    /\ decoded' = DecodeToken(token, SECRET_KEY, clock)
    /\ UNCHANGED << clock, users, token, issued, response >>
    /\ UNCHANGED << refreshVars, policyVars, quotaVars, sweepVars, dataVars,
                    sessionVars >>

\* a request to a protected endpoint with the token as its header: the
\* limiter derives its key, then the endpoint's dependency is resolved and
\* hands the user row to the handler
Request(e, source) ==
    /\ issued.by # "none"
    /\ response = NoResponse
    /\ response' =
         LET out == ResolveDependency(e, token, users, clock)
         IN  [endpoint |-> e.name, status |-> out.status,
              detail |-> out.detail, user |-> out.user,
              key |-> GetRateLimitKey(token, source, clock)]
    /\ UNCHANGED << clock, users, token, issued, decoded >>
    /\ UNCHANGED << refreshVars, policyVars, quotaVars, sweepVars, dataVars,
                    sessionVars >>

\* a second passes; the results of earlier calls are gone
AuthTick ==
    /\ clock < MaxClock
    /\ clock' = clock + 1
    /\ decoded' = NotDecoded
    /\ response' = NoResponse
    /\ UNCHANGED << users, token, issued >>
    /\ UNCHANGED << refreshVars, policyVars, quotaVars, sweepVars, dataVars,
                    sessionVars >>

(***************************************************************************)
(* Quota policy (services/api/src/ratelimit/__init__.py, config.py).       *)
(* A path is held as the sequence of its characters.                       *)
(***************************************************************************)
\* a limit string "<count>/minute"
PerMinute(count) == [count |-> count, per |-> "minute"]

\* RateLimitSettings(): the defaults of the fields
RateLimitSettings ==
    [ public_limit |-> PerMinute(100),
      auth_limit |-> PerMinute(10),
      read_limit_anonymous |-> PerMinute(60),
      read_limit_user |-> PerMinute(120),
      read_limit_admin |-> PerMinute(300),
      write_limit_anonymous |-> PerMinute(30),
      write_limit_user |-> PerMinute(60),
      write_limit_admin |-> PerMinute(150),
      admin_limit |-> PerMinute(100) ]

\* role = None
NoRole == "None"

\* role_str.lower(), for the role strings of the model
Lower(str) ==
    CASE str = "ADMIN" -> "admin"
      [] str = "Admin" -> "admin"
      [] str = "USER" -> "user"
      [] str = "ReadOnly" -> "readonly"
      [] OTHER -> str

\* key.startswith("user:")
IsUserKey(key) == Len(key) >= 2 /\ key[1] = "user"

\* Role(value): the member, or the ValueError raised
RoleEnum(value) ==
    IF value \in Roles
    THEN [exc |-> "none", role |-> value]
    ELSE [exc |-> "ValueError", role |-> NoRole]

\* an exception on its way out of get_rate_limit_for_request
Uncaught == "uncaught"

\* mutant: the ValueError of Role() is not caught
RoleOfKeyUncaught(key) ==
    IF IsUserKey(key)
    THEN LET role_str == IF Len(key) >= 3 THEN key[3] ELSE "user"
             made == RoleEnum(Lower(role_str))
         IN  IF made.exc = "none" THEN made.role ELSE Uncaught
    ELSE NoRole

\* the role get_rate_limit_for_request parses from the key
RoleOfKey(key) ==
    IF IsUserKey(key)
    THEN LET role_str == IF Len(key) >= 3 THEN key[3] ELSE "user"
             made == RoleEnum(Lower(role_str))
         IN  IF made.exc = "none" THEN made.role
             ELSE IF made.exc = "ValueError" THEN NoRole
             ELSE Uncaught
    ELSE NoRole

\* path.startswith(prefix)
StartsWith(path, prefix) ==
    /\ Len(path) >= Len(prefix)
    /\ SubSeq(path, 1, Len(prefix)) = prefix

AuthPrefix == << "/", "a", "u", "t", "h" >>
AdminPrefix == << "/", "a", "d", "m", "i", "n" >>

\* mutant: the /admin test comes first and also matches "/a..."
GetRateLimitForRequestAdminFirst(path, method, key) ==
    LET settings == RateLimitSettings
        role == RoleOfKey(key)
    IN  IF StartsWith(path, << "/", "a" >>) THEN settings.admin_limit
        ELSE IF StartsWith(path, AuthPrefix) THEN settings.auth_limit
        ELSE IF method = "GET"
        THEN IF role = "admin" THEN settings.read_limit_admin
             ELSE IF role = "user" \/ role = "readonly"
             THEN settings.read_limit_user
             ELSE settings.read_limit_anonymous
        ELSE IF role = "admin" THEN settings.write_limit_admin
             ELSE IF role = "user" THEN settings.write_limit_user
             ELSE settings.write_limit_anonymous

\* mutant: the admin and the user limits change places
GetRateLimitForRequestSwapped(path, method, key) ==
    LET settings == RateLimitSettings
        role == RoleOfKey(key)
    IN  IF StartsWith(path, AuthPrefix) THEN settings.auth_limit
        ELSE IF StartsWith(path, AdminPrefix) THEN settings.admin_limit
        ELSE IF method = "GET"
        THEN IF role = "admin" THEN settings.read_limit_user
             ELSE IF role = "user" \/ role = "readonly"
             THEN settings.read_limit_admin
             ELSE settings.read_limit_anonymous
        ELSE IF role = "admin" THEN settings.write_limit_user
             ELSE IF role = "user" THEN settings.write_limit_admin
             ELSE settings.write_limit_anonymous

\* what the caller sees when the function raises
Raised == [count |-> 0, per |-> "raised"]

\* get_rate_limit_for_request(request, key), request given by its
\* url.path and method
GetRateLimitForRequest(path, method, key) ==
    LET settings == RateLimitSettings
        role == RoleOfKey(key)
    IN  IF role = Uncaught THEN Raised
        ELSE IF StartsWith(path, AuthPrefix) THEN settings.auth_limit
        ELSE IF StartsWith(path, AdminPrefix) THEN settings.admin_limit
        ELSE IF method = "GET"
        THEN IF role = "admin" THEN settings.read_limit_admin
             ELSE IF role = "user" \/ role = "readonly"
             THEN settings.read_limit_user
             ELSE settings.read_limit_anonymous
        ELSE IF role = "admin" THEN settings.write_limit_admin
             ELSE IF role = "user" THEN settings.write_limit_user
             ELSE settings.write_limit_anonymous

\* the paths, methods and keys the policy is exercised on
Paths ==
    { AuthPrefix,
      AuthPrefix \o << "/", "l", "o", "g", "i", "n" >>,
      AuthPrefix \o << "o", "r", "s" >>,
      AdminPrefix,
      AdminPrefix \o << "/", "u", "s", "e", "r", "s" >>,
      AdminPrefix \o << "i", "s", "t", "r", "a", "t", "o", "r" >>,
      << "/", "v", "1" >> \o AuthPrefix,
      << "/", "v", "1" >> \o AdminPrefix,
      << "/", "e", "x", "e", "r", "c", "i", "s", "e", "s" >>,
      << "/", "e", "x", "e", "r", "c", "i", "s", "e", "s" >> \o << "/", "s", "e", "e", "d" >>,
      << "/", "h", "e", "a", "l", "t", "h" >>,
      << "/" >> }

Methods == {"GET", "POST", "PATCH", "PUT", "DELETE", "HEAD"}

PolicyKeys ==
    { << "user", "1", "admin" >>, << "user", "1", "user" >>,
      << "user", "1", "readonly" >>, << "user", "testuser", "ADMIN" >>,
      << "user", "1", "superuser" >>, << "user", "1", NoRole >>,
      << "user", "1", "" >>, << "user", "1" >>, << "user", "" >>,
      << "user" >>, << "users", "1", "admin" >>,
      << "ip", "10.0.0.1" >>, << "ip", "unknown" >>,
      << "ip", "", "", "1" >>, << "ip", "user", "admin" >>, << >> }

Calls == [path : Paths, method : Methods, key : PolicyKeys]

NoCall == [path |-> << >>, method |-> "none", key |-> NoKey]
NoLimit == [count |-> 0, per |-> "none"]

PolicyIdle ==
    /\ call = NoCall
    /\ limit = NoLimit

PolicyInit ==
    /\ call \in Calls
    /\ limit = NoLimit

\* get_rate_limit_for_request is called
ApplyPolicy ==
    /\ call # NoCall
    /\ limit = NoLimit
    /\ limit' = GetRateLimitForRequest(call.path, call.method, call.key)
    /\ UNCHANGED call
    /\ UNCHANGED << refreshVars, authVars, quotaVars, sweepVars, dataVars,
                    sessionVars >>

\* the next request comes in
NextCall(c) ==
    /\ limit # NoLimit
    /\ call' = c
    /\ limit' = NoLimit
    /\ UNCHANGED << refreshVars, authVars, quotaVars, sweepVars, dataVars,
                    sessionVars >>

(***************************************************************************)
(* Rate limiter: the slowapi Limiter of api.py (key_func                   *)
(* get_rate_limit_key, Redis storage, fixed window, swallow_errors) on     *)
(* GET /exercises, and rate_limit_exceeded_handler.                        *)
(***************************************************************************)
\* requests a client goes on sending in a window after its quota is used up
MaxOver == 2

\* @limiter.limit("120/minute") of read_exercises
ReadExercisesLimit == PerMinute(120)

ExercisesPath == << "/", "e", "x", "e", "r", "c", "i", "s", "e", "s" >>

\* mutant: storage errors of the limiter are raised
SwallowErrorsOff == FALSE

\* Limiter(..., swallow_errors=True)
SwallowErrors == TRUE

\* this user and a different user, both signed in with role user
QuotaUsers == {1, 2}

\* the header a signed-in user sends
BearerOf(u) ==
    CreateAccessToken([sub |-> IdToStr(u), role |-> "user", type |-> Absent],
                      [given |-> TRUE,
                       seconds |-> ACCESS_TOKEN_EXPIRE_MINUTES * 60],
                      SECRET_KEY, 0)

\* key_func(request) for a request of user u
QuotaKey(u) ==
    GetRateLimitKey(BearerOf(u), [forwarded |-> << >>, client |-> "10.0.0.1"],
                    0)

QuotaKeys == {QuotaKey(u) : u \in QuotaUsers}

\* the RateLimitExceeded slowapi raises: it carries the limit and no
\* retry_after attribute
RateLimitExceeded(lim) == [limit |-> lim, retry_after |-> Absent]

\* mutant: the window admits one request fewer
WithinLimitStrict(count, lim) == count < lim.count

\* the storage's counter after this hit is within the limit
WithinLimit(count, lim) == count <= lim.count

NoVerdict ==
    [user |-> 0, status |-> 0, detail |-> << >>, retry_after |-> 0,
     path |-> << >>, header |-> ""]

\* the request goes on to the endpoint
Passed(u) == [NoVerdict EXCEPT !.user = u, !.status = 200]

\* the storage error reaches the client
StorageError(u) == [NoVerdict EXCEPT !.user = u, !.status = 500]

\* rate_limit_exceeded_handler(request, exc) for a request of user u
RateLimitExceededHandler(u, path, exc) ==
    LET retry_after == IF exc.retry_after = Absent THEN 60
                       ELSE exc.retry_after
    IN  [user |-> u,
         status |-> 429,
         detail |-> << "Rate limit exceeded. Try again in ", retry_after,
                       " seconds." >>,
         retry_after |-> retry_after,
         path |-> path,
         header |-> ToString(retry_after)]

QuotaIdle ==
    /\ hits = [k \in QuotaKeys |-> 0]
    /\ sent = [u \in QuotaUsers |-> 0]
    /\ storeUp = TRUE
    /\ verdict = NoVerdict

\* GET /exercises by user u: the limiter counts the request under the
\* request's key and lets it pass or answers 429
QuotaRequest(u) ==
    LET k == QuotaKey(u)
        lim == ReadExercisesLimit
    IN  /\ sent[u] < lim.count + MaxOver
        /\ sent' = [sent EXCEPT ![u] = @ + 1]
        /\ IF storeUp
           THEN /\ hits' = [hits EXCEPT ![k] = @ + 1]
                /\ verdict' =
                     IF WithinLimit(hits[k] + 1, lim) THEN Passed(u)
                     ELSE RateLimitExceededHandler(u, ExercisesPath,
                                                   RateLimitExceeded(lim))
           ELSE /\ hits' = hits
                /\ verdict' = IF SwallowErrors THEN Passed(u)
                              ELSE StorageError(u)
        /\ UNCHANGED storeUp
        /\ UNCHANGED << refreshVars, authVars, policyVars, sweepVars, dataVars,
                    sessionVars >>

\* the window of a key is over: its counter expires in the storage
WindowExpires(k) ==
    /\ \E u \in QuotaUsers : QuotaKey(u) = k /\ sent[u] > 0
    /\ hits' = [hits EXCEPT ![k] = 0]
    /\ sent' = [u \in QuotaUsers |-> IF QuotaKey(u) = k THEN 0 ELSE sent[u]]
    /\ verdict' = NoVerdict
    /\ UNCHANGED storeUp
    /\ UNCHANGED << refreshVars, authVars, policyVars, sweepVars, dataVars,
                    sessionVars >>

\* the limiter's storage becomes unreachable
StoreDown ==
    /\ storeUp
    /\ storeUp' = FALSE
    /\ verdict' = NoVerdict
    /\ UNCHANGED << hits, sent >>
    /\ UNCHANGED << refreshVars, authVars, policyVars, sweepVars, dataVars,
                    sessionVars >>

\* the limiter's storage is back, with the counters it had
StoreBack ==
    /\ ~storeUp
    /\ storeUp' = TRUE
    /\ verdict' = NoVerdict
    /\ UNCHANGED << hits, sent >>
    /\ UNCHANGED << refreshVars, authVars, policyVars, sweepVars, dataVars,
                    sessionVars >>

(***************************************************************************)
(* Cleanup sweep (services/worker/src/tasks/cleanup.py).                   *)
(***************************************************************************)
\* settings.refresh__idempotency_ttl in seconds: the TTL of a fresh key
IdempotencyTtlSeconds == 3600

\* what TTL can report for a present key that has an expiry: its last half
\* second, below / at the sweep's 60 s line, and a fresh key
TtlReplies == {0, 30, 59, 60, IdempotencyTtlSeconds}

\* TTL's replies for a key without expiry and for a key that does not exist
NoExpiry == -1
NoSuchKey == -2

IdempotencyPrefix == "idempotency"

\* key names of the store: "idempotency:refresh:<item-id>:<date>" and
\* names that do not start with "idempotency:"
IdempotencyName(k) == [prefix |-> IdempotencyPrefix, id |-> k]

ForeignNames == {[prefix |-> "other", id |-> IdempotencyKey(1, 0)]}

Names == {IdempotencyName(k) : k \in Keys} \cup ForeignNames

NoName == [prefix |-> "none", id |-> IdempotencyKey(1, 0)]

\* the names the store holds
PresentNames ==
    {IdempotencyName(k) : k \in {q \in Keys : store[q] > 0 \/ q \in persist}}
        \cup foreign

\* SCAN ... match="idempotency:*"
Matches(name) == name.prefix = IdempotencyPrefix

\* TTL key
TtlOf(name) ==
    IF name \notin PresentNames THEN NoSuchKey
    ELSE IF ~Matches(name) \/ name.id \in persist THEN NoExpiry
    ELSE seconds[name.id]

\* mutant: only keys about to expire are stale, keys without a TTL are kept
IsStaleExpiringOnly(ttl) == ttl > 0 /\ ttl < 60

\* the sweep's test: ttl == -1 or (ttl > 0 and ttl < 60)
IsStale(ttl) == ttl = -1 \/ (ttl > 0 /\ ttl < 60)

NoSweepResult == [kind |-> "none", deleted_idempotency_keys |-> 0]

\* return {"deleted_idempotency_keys": 0, ...} when the redis package is
\* missing
UnavailableReturn == [kind |-> "unavailable", deleted_idempotency_keys |-> 0]

\* return {"deleted_idempotency_keys": 0, ...} after a failed ping
PingErrorReturn == [kind |-> "unreachable", deleted_idempotency_keys |-> 0]

\* mutant: the handler around the scan logs the error and re-raises it
ScanErrorRaise(deleted_count) ==
    [kind |-> "raised", deleted_idempotency_keys |-> 0]

\* the handler around the scan: return {"deleted_idempotency_keys":
\* deleted_count, ...}
ScanErrorReturn(deleted_count) ==
    [kind |-> "error", deleted_idempotency_keys |-> deleted_count]

\* the return at the end of the scan
CompletedReturn(deleted_count) ==
    [kind |-> "completed", deleted_idempotency_keys |-> deleted_count]

SweepIdleLocals(available) ==
    [ pc |-> "idle", available |-> available, open |-> FALSE, cursor |-> 0,
      keys |-> {}, visited |-> {}, key |-> NoName, ttl |-> NoSuchKey,
      deleted_count |-> 0 ]

\* no sweep: the store holds the refresher's keys only, each written with
\* the full TTL
SweepIdle ==
    /\ persist = {}
    /\ seconds = [k \in Keys |-> IdempotencyTtlSeconds]
    /\ foreign = {}
    /\ sweep = SweepIdleLocals(TRUE)
    /\ deletedKeys = {}
    /\ sweepResult = NoSweepResult

\* the remaining seconds of the keys the store holds at the start: a key in
\* its last tick is anywhere in it, every other key (and every key written
\* later) has the full TTL ahead
SecondsInit ==
    seconds \in {f \in [Keys -> TtlReplies] :
                   \A k \in Keys : store[k] # 1 => f[k] = IdempotencyTtlSeconds}

\* a store a sweep can find: the refresher's keys at any age, keys without
\* a TTL, names outside the prefix
SweepInit ==
    /\ persist \in SUBSET {k \in Keys : k[2] = 0 /\ store[k] = 0}
    /\ SecondsInit
    /\ foreign \in SUBSET ForeignNames
    /\ \E available \in BOOLEAN : sweep = SweepIdleLocals(available)
    /\ deletedKeys = {}
    /\ sweepResult = NoSweepResult

\* the except / finally exits after the client was opened: the client is
\* closed and the task returns
SweepExit(ret) ==
    /\ sweep' = [sweep EXCEPT !.pc = "done", !.open = FALSE]
    /\ sweepResult' = ret

\* cleanup_stale_data starts: without the redis package it returns at
\* once, otherwise redis.from_url builds the client
SweepBegin ==
    /\ sweep.pc = "idle"
    /\ IF ~sweep.available
       THEN /\ sweep' = [sweep EXCEPT !.pc = "done"]
            /\ sweepResult' = UnavailableReturn
       ELSE /\ sweep' = [sweep EXCEPT !.pc = "ping", !.open = TRUE]
            /\ UNCHANGED sweepResult
    /\ UNCHANGED << persist, seconds, foreign, deletedKeys >>
    /\ UNCHANGED << refreshVars, authVars, policyVars, quotaVars, dataVars,
                    sessionVars >>

\* await redis_client.ping()
SweepPing(ok) ==
    /\ sweep.pc = "ping"
    /\ IF ok
       THEN /\ sweep' = [sweep EXCEPT !.pc = "scan", !.deleted_count = 0,
                                      !.cursor = 0]
            /\ UNCHANGED sweepResult
       ELSE SweepExit(PingErrorReturn)
    /\ UNCHANGED << persist, seconds, foreign, deletedKeys >>
    /\ UNCHANGED << refreshVars, authVars, policyVars, quotaVars, dataVars,
                    sessionVars >>

\* the matching names SCAN has not returned yet
Unvisited == {n \in PresentNames : Matches(n)} \ sweep.visited

\* cursor, keys = await redis_client.scan(cursor, match="idempotency:*"):
\* a batch of the matching names not returned before, and cursor 0 once
\* every name was returned
SweepScan(ok, batch, cursor) ==
    /\ sweep.pc = "scan"
    /\ IF ok
       THEN /\ batch \subseteq Unvisited
            /\ batch = {} => Unvisited = {}
            /\ cursor = 0 => batch = Unvisited
            /\ sweep' = [sweep EXCEPT !.pc = "keys", !.keys = batch,
                                      !.visited = @ \cup batch,
                                      !.cursor = cursor]
            /\ UNCHANGED sweepResult
       ELSE /\ batch = {}
            /\ cursor = 0
            /\ SweepExit(ScanErrorReturn(sweep.deleted_count))
    /\ UNCHANGED << persist, seconds, foreign, deletedKeys >>
    /\ UNCHANGED << refreshVars, authVars, policyVars, quotaVars, dataVars,
                    sessionVars >>

\* for key in keys: ttl = await redis_client.ttl(key), and the test on it
SweepTtl(name, ok) ==
    /\ sweep.pc = "keys"
    /\ name \in sweep.keys
    /\ IF ok
       THEN /\ sweep' = IF IsStale(TtlOf(name))
                        THEN [sweep EXCEPT !.pc = "delete", !.key = name,
                                           !.ttl = TtlOf(name)]
                        ELSE [sweep EXCEPT !.keys = @ \ {name}]
            /\ UNCHANGED sweepResult
       ELSE SweepExit(ScanErrorReturn(sweep.deleted_count))
    /\ UNCHANGED << persist, seconds, foreign, deletedKeys >>
    /\ UNCHANGED << refreshVars, authVars, policyVars, quotaVars, dataVars,
                    sessionVars >>

\* await redis_client.delete(key); deleted_count += 1
SweepDelete(ok) ==
    /\ sweep.pc = "delete"
    /\ IF ok
       THEN /\ store' = IF Matches(sweep.key)
                        THEN [store EXCEPT ![sweep.key.id] = 0]
                        ELSE store
            /\ persist' = IF Matches(sweep.key)
                          THEN persist \ {sweep.key.id}
                          ELSE persist
            /\ foreign' = foreign \ {sweep.key}
            /\ deletedKeys' =
                  IF sweep.key \in PresentNames
                  THEN deletedKeys \cup {<< sweep.key, sweep.ttl >>}
                  ELSE deletedKeys
            /\ sweep' = [sweep EXCEPT !.pc = "keys", !.keys = @ \ {sweep.key},
                                      !.key = NoName, !.ttl = NoSuchKey,
                                      !.deleted_count = @ + 1]
            /\ UNCHANGED sweepResult
       ELSE /\ SweepExit(ScanErrorReturn(sweep.deleted_count))
            /\ UNCHANGED << store, persist, foreign, deletedKeys >>
    /\ UNCHANGED seconds
    /\ UNCHANGED << remote, day, pc, listed, st, fails, counters, result,
                    disturbed >>
    /\ UNCHANGED << authVars, policyVars, quotaVars, dataVars, sessionVars >>

\* the batch is done: if cursor == 0 the loop breaks and the task returns
\* the count (finally: aclose), otherwise the next SCAN
SweepNext ==
    /\ sweep.pc = "keys"
    /\ sweep.keys = {}
    /\ IF sweep.cursor = 0
       THEN SweepExit(CompletedReturn(sweep.deleted_count))
       ELSE /\ sweep' = [sweep EXCEPT !.pc = "scan"]
            /\ UNCHANGED sweepResult
    /\ UNCHANGED << persist, seconds, foreign, deletedKeys >>
    /\ UNCHANGED << refreshVars, authVars, policyVars, quotaVars, dataVars,
                    sessionVars >>

SweepStep ==
    \/ SweepBegin
    \/ \E ok \in BOOLEAN : SweepPing(ok)
    \/ \E ok \in BOOLEAN, batch \in SUBSET Names, cursor \in {0, 1} :
          SweepScan(ok, batch, cursor)
    \/ \E name \in Names, ok \in BOOLEAN : SweepTtl(name, ok)
    \/ \E ok \in BOOLEAN : SweepDelete(ok)
    \/ SweepNext

(***************************************************************************)
(* Exercises and accounts (services/api/src/database/sqlmodel_repository.py*)
(* and the exercise / account endpoints of api.py).  The caller of every   *)
(* endpoint is the user get_current_user resolved.                         *)
(***************************************************************************)
\* ids the users table and the exercises table can hand out
MaxUsers == 2
MaxExercises == 2

DataUserIds == 1..MaxUsers
ExerciseIds == 1..MaxExercises
ExerciseNames == {"Squats", "Bench Press"}

\* UserTable rows (id -> role), and "no row with this id"
NoAccount == [exists |-> FALSE, role |-> "user"]
AccountRows == [exists : {TRUE}, role : {"user", "admin"}] \cup {NoAccount}

\* ExerciseTable rows: user_id is the foreign key to users.id; user_id 0
\* stands for "no row with this id"
NoExercise == [user_id |-> 0, name |-> ""]
ExerciseRows ==
    [user_id : DataUserIds, name : ExerciseNames] \cup {NoExercise}

\* database.py: SQLite unless DATABASE_URL names PostgreSQL.  SQLite does
\* not enforce foreign keys (no PRAGMA foreign_keys) and gives a new row
\* the id max(id) + 1; PostgreSQL enforces them and takes ids from a
\* sequence.
Backends == {"sqlite", "postgresql"}

MaxId(ids) == IF ids = {} THEN 0 ELSE CHOOSE m \in ids : \A x \in ids : x <= m

\* the id INSERT gives the next users row
NextUserId ==
    IF backend = "postgresql" THEN userSeq + 1
    ELSE MaxId({u \in DataUserIds : accounts[u].exists}) + 1

\* the id INSERT gives the next exercises row
NextExerciseId == MaxId({e \in ExerciseIds : exercises[e].user_id # 0}) + 1

\* mutant: the row is selected by its id alone
OwnedByAnyone(table, e, u) == table[e].user_id # 0

\* where(ExerciseTable.id == exercise_id, ExerciseTable.user_id == user_id)
OwnedBy(table, e, u) == table[e].user_id # 0 /\ table[e].user_id = u

\* where(ExerciseTable.user_id == user_id): the ids of the rows selected
ListFor(table, u) == {e \in ExerciseIds : table[e].user_id = u}

\* ExerciseRepository.get_by_id: the row, or None
GetById(table, e, u) ==
    IF OwnedBy(table, e, u) THEN table[e] ELSE NoExercise

\* ExerciseRepository.update: the table afterwards
Update(table, e, u, name) ==
    IF OwnedBy(table, e, u) THEN [table EXCEPT ![e].name = name] ELSE table

\* ExerciseRepository.delete: the table afterwards
Delete(table, e, u) ==
    IF OwnedBy(table, e, u) THEN [table EXCEPT ![e] = NoExercise] ELSE table

NoReply ==
    [op |-> "none", user |-> 0, exercise |-> 0, status |-> 0, items |-> {}]

ItemReply(op, u, e, status) ==
    [op |-> op, user |-> u, exercise |-> e, status |-> status, items |-> {}]

\* the API with no account and no exercise, for the other specifications
DataIdle ==
    /\ accounts = [u \in DataUserIds |-> NoAccount]
    /\ exercises = [e \in ExerciseIds |-> NoExercise]
    /\ backend = "sqlite"
    /\ userSeq = 0
    /\ ownerless = {}
    /\ reply = NoReply

\* an empty database on either backend
DataInit ==
    /\ accounts = [u \in DataUserIds |-> NoAccount]
    /\ exercises = [e \in ExerciseIds |-> NoExercise]
    /\ backend \in Backends
    /\ userSeq = 0
    /\ ownerless = {}
    /\ reply = NoReply

\* POST /auth/register, POST /auth/google: a new users row; its role is
\* "user", or "admin" for an address of admin_emails
CreateAccount(role) ==
    /\ NextUserId \in DataUserIds
    /\ accounts' = [accounts EXCEPT ![NextUserId] =
                       [exists |-> TRUE, role |-> role]]
    /\ userSeq' = IF backend = "postgresql" THEN NextUserId ELSE userSeq
    /\ reply' = ItemReply("register", NextUserId, 0, 201)
    /\ UNCHANGED << exercises, backend, ownerless >>
    /\ UNCHANGED << refreshVars, authVars, policyVars, quotaVars, sweepVars,
                    sessionVars >>

\* POST /exercises: repository.create(user_id=current_user.id, ...)
AddExercise(u, name) ==
    /\ accounts[u].exists
    /\ NextExerciseId \in ExerciseIds
    /\ exercises' = [exercises EXCEPT ![NextExerciseId] =
                        [user_id |-> u, name |-> name]]
    /\ ownerless' = ownerless \ {NextExerciseId}
    /\ reply' = ItemReply("create", u, NextExerciseId, 201)
    /\ UNCHANGED << accounts, backend, userSeq >>
    /\ UNCHANGED << refreshVars, authVars, policyVars, quotaVars, sweepVars,
                    sessionVars >>

\* GET /exercises: repository.list_paginated(current_user.id, ...)
ReadExercises(u) ==
    /\ accounts[u].exists
    /\ reply' = [ItemReply("list", u, 0, 200) EXCEPT
                    !.items = ListFor(exercises, u)]
    /\ UNCHANGED << accounts, exercises, backend, userSeq, ownerless >>
    /\ UNCHANGED << refreshVars, authVars, policyVars, quotaVars, sweepVars,
                    sessionVars >>

\* GET /exercises/{exercise_id}: get_by_id, 404 when it returns None
ReadExercise(u, e) ==
    /\ accounts[u].exists
    /\ reply' = IF GetById(exercises, e, u) # NoExercise
                THEN [ItemReply("read", u, e, 200) EXCEPT !.items = {e}]
                ELSE ItemReply("read", u, e, 404)
    /\ UNCHANGED << accounts, exercises, backend, userSeq, ownerless >>
    /\ UNCHANGED << refreshVars, authVars, policyVars, quotaVars, sweepVars,
                    sessionVars >>

\* PATCH /exercises/{exercise_id}: update, 404 when it returns None
EditExercise(u, e, name) ==
    /\ accounts[u].exists
    /\ exercises' = Update(exercises, e, u, name)
    /\ reply' = IF OwnedBy(exercises, e, u)
                THEN ItemReply("edit", u, e, 200)
                ELSE ItemReply("edit", u, e, 404)
    /\ UNCHANGED << accounts, backend, userSeq, ownerless >>
    /\ UNCHANGED << refreshVars, authVars, policyVars, quotaVars, sweepVars,
                    sessionVars >>

\* DELETE /exercises/{exercise_id}: delete, 404 when it returns False
DeleteExercise(u, e) ==
    /\ accounts[u].exists
    /\ exercises' = Delete(exercises, e, u)
    /\ ownerless' = IF OwnedBy(exercises, e, u) THEN ownerless \ {e}
                    ELSE ownerless
    /\ reply' = IF OwnedBy(exercises, e, u)
                THEN ItemReply("delete", u, e, 204)
                ELSE ItemReply("delete", u, e, 404)
    /\ UNCHANGED << accounts, backend, userSeq >>
    /\ UNCHANGED << refreshVars, authVars, policyVars, quotaVars, sweepVars,
                    sessionVars >>

\* DELETE /admin/exercises/{exercise_id} by an admin (require_admin has
\* passed): repository.delete(exercise_id, current_user.id)
AdminDeleteExercise(u, e) ==
    /\ accounts[u].exists
    /\ accounts[u].role = "admin"
    /\ exercises' = Delete(exercises, e, u)
    /\ ownerless' = IF OwnedBy(exercises, e, u) THEN ownerless \ {e}
                    ELSE ownerless
    /\ reply' = IF OwnedBy(exercises, e, u)
                THEN ItemReply("admin_delete", u, e, 204)
                ELSE ItemReply("admin_delete", u, e, 404)
    /\ UNCHANGED << accounts, backend, userSeq >>
    /\ UNCHANGED << refreshVars, authVars, policyVars, quotaVars, sweepVars,
                    sessionVars >>

\* DELETE /auth/me: session.delete(current_user); session.commit().  The
\* exercises rows are not touched: a database that enforces the foreign
\* key refuses the commit while the user has exercises, the other one
\* leaves the rows behind.
DeleteMe(u) ==
    /\ accounts[u].exists
    /\ IF backend = "postgresql" /\ ListFor(exercises, u) # {}
       THEN /\ reply' = ItemReply("delete_me", u, 0, 500)
            /\ UNCHANGED << accounts, ownerless >>
       ELSE /\ accounts' = [accounts EXCEPT ![u] = NoAccount]
            /\ ownerless' = ownerless \cup ListFor(exercises, u)
            /\ reply' = ItemReply("delete_me", u, 0, 204)
    /\ UNCHANGED << exercises, backend, userSeq >>
    /\ UNCHANGED << refreshVars, authVars, policyVars, quotaVars, sweepVars,
                    sessionVars >>

(***************************************************************************)
(* Token refresh and changes of the users table (api.py, auth.py).         *)
(***************************************************************************)
\* token pairs minted from one refresh token that the model follows
MaxMints == 2

NoRenewal ==
    [status |-> 0, detail |-> "", access_token |-> NoHeader,
     refresh_token |-> NoHeader]

Rejected(detail) == [NoRenewal EXCEPT !.status = 401, !.detail = detail]

\* mutant: the "type" claim of the token is not looked at
RefreshTokenAnyType(tok, table, now) ==
    LET payload == DecodeToken(tok, SECRET_KEY, now)
        user_id == StrToId(payload.payload.sub)
        user == GetUser(table, user_id)
    IN  IF payload.kind # "payload"
        THEN Rejected("Invalid or expired refresh token")
        ELSE IF payload.payload.sub = Absent \/ user_id = 0
        THEN Rejected("Invalid refresh token")
        ELSE IF ~user.exists THEN Rejected("User not found")
        ELSE [status |-> 200, detail |-> "",
              access_token |->
                  CreateAccessToken(
                      [sub |-> IdToStr(user_id), role |-> user.role,
                       type |-> Absent],
                      [given |-> TRUE,
                       seconds |-> ACCESS_TOKEN_EXPIRE_MINUTES * 60],
                      SECRET_KEY, now),
              refresh_token |-> CreateRefreshToken(user_id, SECRET_KEY, now)]

\* refresh_token(refresh_request, user_repo) at time now: the Token
\* returned (status 200) or the HTTPException raised
RefreshToken(tok, table, now) ==
    LET payload == DecodeToken(tok, SECRET_KEY, now)
        user_id == StrToId(payload.payload.sub)
        user == GetUser(table, user_id)
    IN  IF payload.kind # "payload" \/ payload.payload.type # "refresh"
        THEN Rejected("Invalid or expired refresh token")
        ELSE IF payload.payload.sub = Absent \/ user_id = 0
        THEN Rejected("Invalid refresh token")
        ELSE IF ~user.exists THEN Rejected("User not found")
        ELSE [status |-> 200, detail |-> "",
              access_token |->
                  CreateAccessToken(
                      [sub |-> IdToStr(user_id), role |-> user.role,
                       type |-> Absent],
                      [given |-> TRUE,
                       seconds |-> ACCESS_TOKEN_EXPIRE_MINUTES * 60],
                      SECRET_KEY, now),
              refresh_token |-> CreateRefreshToken(user_id, SECRET_KEY, now)]

SessionIdle ==
    /\ mints = 0
    /\ renewal = NoRenewal

\* POST /auth/refresh with the token as the body's refresh_token
Refresh ==
    /\ issued.by # "none"
    /\ token.form \in {"jwt", "malformed"}
    /\ mints < MaxMints
    /\ renewal' = RefreshToken(token, users, clock)
    /\ mints' = IF RefreshToken(token, users, clock).status = 200
                THEN mints + 1 ELSE mints
    /\ UNCHANGED authVars
    /\ UNCHANGED << refreshVars, policyVars, quotaVars, sweepVars, dataVars >>

\* the disabled flag of a users row is set in the store
Disable(id) ==
    /\ users[id].exists
    /\ ~users[id].disabled
    /\ users' = [users EXCEPT ![id].disabled = TRUE]
    /\ decoded' = NotDecoded
    /\ response' = NoResponse
    /\ UNCHANGED << clock, token, issued >>
    /\ UNCHANGED << refreshVars, policyVars, quotaVars, sweepVars, dataVars,
                    sessionVars >>

\* the users row is deleted (DELETE /auth/me, UserRepository.delete_by_id)
DeleteUser(id) ==
    /\ users[id].exists
    /\ users' = [users EXCEPT ![id] = NoUser]
    /\ decoded' = NotDecoded
    /\ response' = NoResponse
    /\ UNCHANGED << clock, token, issued >>
    /\ UNCHANGED << refreshVars, policyVars, quotaVars, sweepVars, dataVars,
                    sessionVars >>

RestIdle == SweepIdle /\ DataIdle /\ SessionIdle

\* the hourly cron starts a run only when the previous tick's run is over
\* (job_timeout is far below the cron period)
CronStartRun(r) ==
    /\ \A q \in Runs : q < r => pc[q] \in {"done", "raised"}
    /\ StartRun(r)

ItemStep(r) ==
    \/ ListItems(r)
    \/ ListFails(r)
    \/ PropagateListError(r)
    \/ \E i \in Items : Acquire(r, i)
    \/ \E i \in Items, storeOk \in BOOLEAN : CheckMarked(r, i, storeOk)
    \/ \E i \in Items, ok \in BOOLEAN : Attempt(r, i, ok)
    \/ \E i \in Items, storeOk \in BOOLEAN : Mark(r, i, storeOk)
    \/ Finish(r)

Init == RefreshInit /\ AuthIdle /\ PolicyIdle /\ QuotaIdle /\ RestIdle

\* runs may overlap (a job enqueued while a cron run is still going)
Next ==
    \/ \E r \in Runs : StartRun(r)
    \/ \E r \in Runs : ItemStep(r)
    \/ \E newDay \in BOOLEAN : Tick(newDay)

Spec == Init /\ [][Next]_vars

\* runs started by the hourly cron alone: back-to-back, never overlapping
NextCron ==
    \/ \E r \in Runs : CronStartRun(r)
    \/ \E r \in Runs : ItemStep(r)
    \/ \E newDay \in BOOLEAN : Tick(newDay)

SpecCron == Init /\ [][NextCron]_vars

\* one run on its own, over whatever earlier runs left in the store
NextRun ==
    \/ StartRun(1)
    \/ ItemStep(1)
    \/ \E newDay \in BOOLEAN : Tick(newDay)

SpecRun == Init /\ [][NextRun]_vars

\* the event loop keeps running a job that has something to do: every
\* remote and store call returns or times out
SpecRunFair == SpecRun /\ WF_vars(ItemStep(1))

InitAuth == AuthInit /\ RefreshIdle /\ PolicyIdle /\ QuotaIdle /\ RestIdle

NextAuth ==
    \/ \E data \in ClaimSets, delta \in Deltas, key \in SigningKeys :
          IssueAccess(data, delta, key)
    \/ \E id \in {1, 2}, key \in SigningKeys : IssueRefresh(id, key)
    \/ \E id \in UserIds : Login(id)
    \/ \E id \in UserIds, role \in Roles : Promote(id, role)
    \/ \E header \in NonJwt : Forge(header)
    \/ Decode
    \/ \E e \in ProtectedEndpoints, source \in Sources : Request(e, source)
    \/ AuthTick

SpecAuth == InitAuth /\ [][NextAuth]_vars

\* the quota policy applied to one request after another
InitPolicy == PolicyInit /\ RefreshIdle /\ AuthIdle /\ QuotaIdle /\ RestIdle

NextPolicy ==
    \/ ApplyPolicy
    \/ \E c \in Calls : NextCall(c)

SpecPolicy == InitPolicy /\ [][NextPolicy]_vars

\* two users reading their exercises, the limiter's storage reachable
InitQuota == QuotaIdle /\ RefreshIdle /\ AuthIdle /\ PolicyIdle /\ RestIdle

NextQuota ==
    \/ \E u \in QuotaUsers : QuotaRequest(u)
    \/ \E k \in QuotaKeys : WindowExpires(k)

SpecQuota == InitQuota /\ [][NextQuota]_vars

\* one user reading, the limiter's storage coming and going
NextOutage ==
    \/ QuotaRequest(1)
    \/ WindowExpires(QuotaKey(1))
    \/ StoreDown
    \/ StoreBack

SpecOutage == InitQuota /\ [][NextOutage]_vars

\* one cleanup sweep over a store nothing else touches meanwhile
InitSweep ==
    /\ RefreshInit /\ AuthIdle /\ PolicyIdle /\ QuotaIdle
    /\ DataIdle /\ SessionIdle
    /\ SweepInit

SpecSweep == InitSweep /\ [][SweepStep]_vars

\* one cleanup sweep and one refresh run over the keys earlier runs left,
\* within the lifetime of those keys (no key expires, the day does not
\* change)
InitSweepRun ==
    /\ RefreshInit /\ AuthIdle /\ PolicyIdle /\ QuotaIdle
    /\ DataIdle /\ SessionIdle
    /\ SweepInit
    /\ persist = {}
    /\ foreign = {}
    /\ sweep.available

NextSweepRun ==
    \/ StartRun(1)
    \/ ItemStep(1)
    \/ SweepStep

SpecSweepRun == InitSweepRun /\ [][NextSweepRun]_vars

\* accounts and their exercises on either database
InitData ==
    /\ DataInit
    /\ RefreshIdle /\ AuthIdle /\ PolicyIdle /\ QuotaIdle
    /\ SweepIdle /\ SessionIdle

NextData ==
    \/ \E role \in {"user", "admin"} : CreateAccount(role)
    \/ \E u \in DataUserIds, name \in ExerciseNames : AddExercise(u, name)
    \/ \E u \in DataUserIds : ReadExercises(u)
    \/ \E u \in DataUserIds, e \in ExerciseIds : ReadExercise(u, e)
    \/ \E u \in DataUserIds, e \in ExerciseIds, name \in ExerciseNames :
          EditExercise(u, e, name)
    \/ \E u \in DataUserIds, e \in ExerciseIds : DeleteExercise(u, e)
    \/ \E u \in DataUserIds, e \in ExerciseIds : AdminDeleteExercise(u, e)
    \/ \E u \in DataUserIds : DeleteMe(u)

SpecData == InitData /\ [][NextData]_vars

\* one token, an access token of a login or a refresh token, presented to
\* the protected endpoints and to POST /auth/refresh while the users table
\* changes
RefreshClaims == [sub : {"1"}, role : {Absent}, type : {"refresh"}]

ShortDelta == [given |-> TRUE, seconds |-> 1]

InitSession ==
    /\ AuthInit
    /\ RefreshIdle /\ PolicyIdle /\ QuotaIdle
    /\ SweepIdle /\ DataIdle /\ SessionIdle

NextSession ==
    \/ \E id \in UserIds : Login(id)
    \/ \E id \in {1, 2}, key \in SigningKeys : IssueRefresh(id, key)
    \/ \E data \in RefreshClaims : IssueAccess(data, ShortDelta, SECRET_KEY)
    \/ \E id \in UserIds, role \in Roles : Promote(id, role)
    \/ \E id \in UserIds : Disable(id)
    \/ \E id \in UserIds : DeleteUser(id)
    \/ \E e \in ProtectedEndpoints : Request(e, DirectSource)
    \/ Refresh
    \/ AuthTick

SpecSession == InitSession /\ [][NextSession]_vars

(***************************************************************************)
(* Properties of the refresh job.                                          *)
(***************************************************************************)
BothDone == pc[1] = "done" /\ pc[2] = "done"

Count(r, state) == Cardinality({i \in Items : st[r][i] = state})

C2_BoundedConcurrency ==
    \A r \in Runs :
        /\ Cardinality(InFlight(r)) <= Settings.refresh__concurrency
        /\ Cardinality(InFlight(r)) >= Settings.refresh__concurrency
              => \A i \in Items : ~ENABLED Acquire(r, i)

C2_Witness ==
    \E r \in Runs, i \in Items :
        /\ st[r][i] = "Pending"
        /\ Cardinality(InFlight(r)) = Settings.refresh__concurrency

\* C3: within one idempotency window no item's remote refresh call is
\* performed successfully by both of two runs, however their is_marked
\* checks, remote calls and mark writes interleave.
C3_NoDoubleProcessing ==
    ~disturbed =>
        \A i \in Items :
            ~(st[1][i] \in RefreshedStates /\ st[2][i] \in RefreshedStates)

\* C4: an item is given up exactly after refresh__max_retries failed
\* attempts; with fewer failures a successful attempt counts it as
\* processed and not as failed; no item is attempted more than
\* refresh__max_retries times.
Attempts(r, i) ==
    fails[r][i] + (IF st[r][i] \in RefreshedStates THEN 1 ELSE 0)

C4_RetryThenProcessed ==
    \A r \in Runs :
        /\ \A i \in Items :
            /\ Attempts(r, i) <= Settings.refresh__max_retries
            /\ st[r][i] = "Failed"
                  <=> fails[r][i] = Settings.refresh__max_retries
            /\ (st[r][i] = "Processing" /\ fails[r][i] > 0)
                  => ENABLED Attempt(r, i, TRUE)
        /\ counters[r].processed = Count(r, "Succeeded")
        /\ counters[r].failed = Count(r, "Failed")

C4_Witness ==
    \E r \in Runs, i \in Items :
        /\ st[r][i] = "Succeeded"
        /\ fails[r][i] = Settings.refresh__max_retries - 1
        /\ counters[r].processed = 1
        /\ counters[r].failed = 0

C6_ListFailureIsFatal ==
    [][\A r \in Runs :
        /\ (pc[r] = "list_error" /\ pc'[r] # "list_error") =>
              /\ pc'[r] = "raised"
              /\ result'[r].kind = "exception"
        /\ pc[r] = "running" => pc'[r] \in {"running", "done"}
        /\ result'[r].kind = "exception" => pc'[r] = "raised"
        /\ pc[r] = "raised" => (pc'[r] = "raised" /\ result'[r] = result[r])
      ]_vars

C6_Witness ==
    \E r \in Runs :
        /\ pc[r] = "raised"
        /\ result[r].kind = "exception"
        /\ listed[r] = {}

\* C7: while a run is going each listed item is in exactly one state and
\* the counters count the resolved ones; a resolved item stays as it is
\* until the run ends; the returned total is processed + skipped + failed
\* and equals the number of items listed.
C7_EveryItemCountedOnce ==
    /\ [](\A r \in Runs :
            /\ pc[r] = "running" =>
                /\ \A i \in Items : st[r][i] # "NotListed" <=> i \in listed[r]
                /\ counters[r].processed = Count(r, "Succeeded")
                /\ counters[r].skipped = Count(r, "Skipped")
                /\ counters[r].failed = Count(r, "Failed")
            /\ pc[r] = "done" =>
                /\ result[r].total = result[r].processed
                                       + result[r].skipped + result[r].failed
                /\ result[r].total = Cardinality(listed[r]))
    /\ [][\A r \in Runs, i \in Items :
            st[r][i] \in ResolvedStates =>
                \/ st'[r][i] = st[r][i]
                \/ /\ pc'[r] = "done"
                   /\ \A j \in listed[r] : st[r][j] \in ResolvedStates
                   /\ result'[r].total = Cardinality(listed[r])]_vars

C7_Witness ==
    \E r \in Runs :
        /\ pc[r] = "done"
        /\ result[r].processed = 1
        /\ result[r].skipped + result[r].failed = 1
        /\ result[r].total = 2

(***************************************************************************)
(* Properties of the token service and the authentication dependency.      *)
(***************************************************************************)
\* the token was made by create_access_token with the service's secret and
\* an explicit ttl, and decode_token was called on it at once
RoundTripDone ==
    /\ decoded.kind # "none"
    /\ issued.by = "access"
    /\ issued.key = SECRET_KEY
    /\ issued.delta.given
    /\ issued.at = clock

\* C8: decode_token(create_access_token(claims, ttl)) returns the claims
\* (plus exp) when ttl > 0 and null when ttl <= 0, ttl = 0 included.
C8_RoundTrip ==
    RoundTripDone =>
        IF issued.delta.seconds > 0
        THEN /\ decoded.kind = "payload"
             /\ decoded.payload.sub = issued.data.sub
             /\ decoded.payload.role = issued.data.role
             /\ decoded.payload.type = issued.data.type
        ELSE decoded.kind = "null"

\* the token fails validation at the current time: no JWT at all (the empty
\* string included), signed with another secret, or expired
Invalid(tok) ==
    \/ tok.form # "jwt"
    \/ tok.key # SECRET_KEY
    \/ tok.payload.exp <= clock

\* C9: decode_token never raises, and returns null for every expired,
\* malformed or wrongly signed token.
C9_DecodeReturnsNull ==
    decoded.kind # "none" =>
        /\ decoded.kind # "raised"
        /\ Invalid(token) => decoded.kind = "null"

C9_Witness ==
    /\ decoded.kind = "null"
    /\ token.form = "jwt"
    /\ token.key = OtherKey
    /\ token.payload.exp > clock

\* C10: every protected endpoint answers a missing, malformed, wrongly
\* signed or expired bearer token with 401 and the one generic detail.
C10_GenericUnauthorized ==
    (response.endpoint # "none" /\ Invalid(token)) =>
        /\ response.status = 401
        /\ response.detail = "Could not validate credentials"

C10_Witness ==
    /\ response.endpoint = "GET /admin/users"
    /\ response.status = 401
    /\ token.form = "jwt"
    /\ token.key = SECRET_KEY
    /\ token.payload.exp <= clock
    /\ users[1].exists


\* the row of the token's subject in the users table
SubjectRow == GetUser(users, StrToId(token.payload.sub))

\* C11: for a token that decodes, get_current_user answers 401 when the
\* subject has no row, 403 "User account is disabled" when the row is
\* disabled, and otherwise hands over the row; no endpoint ever gets a
\* disabled row, whatever its role.
C11_ResolvedIdentity ==
    (response.endpoint # "none" /\ ~Invalid(token)) =>
        /\ ~SubjectRow.exists =>
               /\ response.status = 401
               /\ response.detail = "Could not validate credentials"
               /\ response.user = NoUser
        /\ (SubjectRow.exists /\ SubjectRow.disabled) =>
               /\ response.status = 403
               /\ response.detail = "User account is disabled"
               /\ response.user = NoUser
        /\ ( /\ SubjectRow.exists
             /\ ~SubjectRow.disabled
             /\ response.endpoint \notin AdminEndpoints ) =>
               /\ response.status = 200
               /\ response.user = SubjectRow
        /\ response.status = 200 =>
               /\ response.user.exists
               /\ ~response.user.disabled

C11_Witness ==
    /\ response.endpoint = "GET /exercises"
    /\ response.status = 403
    /\ response.detail = "User account is disabled"
    /\ ~Invalid(token)
    /\ users[1].disabled
    /\ users[1].role = "admin"

\* what role_checker raises
RoleNotAuthorized ==
    [status |-> 403, detail |-> "Role not authorized", user |-> NoUser]

\* C12: for every resolved identity and every set of allowed roles,
\* require_role answers 403 when the identity's role is not in the set and
\* returns the identity unchanged otherwise; an admin endpoint's handler
\* only ever gets a row whose role is admin.
C12_RoleGate ==
    /\ LET current == GetCurrentUser(token, users, clock)
       IN  current.status = 200 =>
               \A allowed \in SUBSET Roles :
                   RequireRole(allowed, current) =
                       IF current.user.role \in allowed
                       THEN current
                       ELSE RoleNotAuthorized
    /\ response.endpoint \in AdminEndpoints =>
           /\ response.status = 200 =>
                  /\ response.user = SubjectRow
                  /\ response.user.role = "admin"
           /\ ( /\ ~Invalid(token)
                /\ SubjectRow.exists
                /\ ~SubjectRow.disabled
                /\ SubjectRow.role # "admin" ) =>
                  /\ response.status = 403
                  /\ response.detail = "Role not authorized"
                  /\ response.user = NoUser

C12_Witness ==
    /\ response.endpoint = "GET /admin/users"
    /\ response.status = 403
    /\ response.detail = "Role not authorized"
    /\ ~Invalid(token)
    /\ users[1].exists
    /\ ~users[1].disabled
    /\ users[1].role = "readonly"

\* C13: for every authenticated request the authorization decision of
\* require_role and the quota tier are taken on one and the same role,
\* the role claim of the access token, also after the role of the users
\* row has been changed.
C13_OneRoleForBoth ==
    ( /\ issued.by = "login"
      /\ response.endpoint \in AdminEndpoints
      /\ ~Invalid(token)
      /\ SubjectRow.exists
      /\ ~SubjectRow.disabled ) =>
        /\ RoleOfKey(response.key) = token.payload.role
        /\ (response.status = 200) <=> (token.payload.role = "admin")

(***************************************************************************)
(* Properties of the quota policy.                                         *)
(***************************************************************************)
\* the request's path is under neither /auth nor /admin
Elsewhere ==
    /\ ~StartsWith(call.path, AuthPrefix)
    /\ ~StartsWith(call.path, AdminPrefix)

ReadLimits ==
    { RateLimitSettings.read_limit_admin, RateLimitSettings.read_limit_user,
      RateLimitSettings.read_limit_anonymous }

WriteLimits ==
    { RateLimitSettings.write_limit_admin, RateLimitSettings.write_limit_user,
      RateLimitSettings.write_limit_anonymous }

\* the anonymous limit of the request's method
AnonymousLimit ==
    IF call.method = "GET" THEN RateLimitSettings.read_limit_anonymous
    ELSE RateLimitSettings.write_limit_anonymous

\* the user limit of the request's method
UserLimit ==
    IF call.method = "GET" THEN RateLimitSettings.read_limit_user
    ELSE RateLimitSettings.write_limit_user

\* the admin limit of the request's method
AdminTierLimit ==
    IF call.method = "GET" THEN RateLimitSettings.read_limit_admin
    ELSE RateLimitSettings.write_limit_admin

\* C14: a path starting with /auth gets the auth limit whatever the role
\* and the method; otherwise a path starting with /admin gets the admin
\* limit; only otherwise one of the six read/write limits is selected, by
\* method and role.
C14_FirstMatch ==
    limit # NoLimit =>
        IF StartsWith(call.path, AuthPrefix)
        THEN limit = RateLimitSettings.auth_limit
        ELSE IF StartsWith(call.path, AdminPrefix)
        THEN limit = RateLimitSettings.admin_limit
        ELSE /\ call.method = "GET" => limit \in ReadLimits
             /\ call.method # "GET" => limit \in WriteLimits
             /\ RoleOfKey(call.key) = "admin" => limit = AdminTierLimit
             /\ RoleOfKey(call.key) = NoRole => limit = AnonymousLimit

C14_Witness ==
    /\ limit = RateLimitSettings.auth_limit
    /\ call.path = AuthPrefix \o << "o", "r", "s" >>
    /\ call.method = "DELETE"
    /\ call.key = << "user", "1", "admin" >>

\* C15: outside /auth and /admin, a key with role user and a key with role
\* readonly get the same limit, the user limit, for GET requests and for
\* write requests alike.
C15_ReadonlyLikeUser ==
    ( /\ limit # NoLimit
      /\ Elsewhere
      /\ RoleOfKey(call.key) \in {"user", "readonly"} ) =>
        limit = UserLimit

\* the role part of a key, as written in the key
RolePart(key) ==
    IF IsUserKey(key) /\ Len(key) >= 3 THEN key[3] ELSE Absent

\* C16 as stated: get_rate_limit_for_request never raises, and a key whose
\* role part is not one of admin, user, readonly (a user: key without a
\* role part included) gets the anonymous limit.
C16_UnrecognisedIsAnonymous ==
    limit # NoLimit =>
        /\ limit # Raised
        /\ (Elsewhere /\ RolePart(call.key) \notin Roles) =>
               limit = AnonymousLimit

\* C16 amended: get_rate_limit_for_request never raises; a key that is no
\* user: key, or whose role part in lower case is not one of admin, user,
\* readonly, gets the anonymous limit; a user: key without a role part
\* gets the user limit.
C16_UnrecognisedLowerIsAnonymous ==
    limit # NoLimit =>
        /\ limit # Raised
        /\ ( /\ Elsewhere
             /\ \/ ~IsUserKey(call.key)
                \/ /\ Len(call.key) >= 3
                   /\ Lower(call.key[3]) \notin Roles ) =>
               limit = AnonymousLimit
        /\ (Elsewhere /\ IsUserKey(call.key) /\ Len(call.key) < 3) =>
               limit = UserLimit

C16_Witness ==
    /\ limit = RateLimitSettings.write_limit_anonymous
    /\ call.key = << "user", "1", "superuser" >>
    /\ call.method = "POST"
    /\ Elsewhere

IpKeys == {<< "ip", ClientIp(source) >> : source \in Sources}

C19_QuotaPerUser ==
    /\ ReadExercisesLimit.count = 120
    /\ \A u \in QuotaUsers : hits[QuotaKey(u)] = sent[u]
    /\ verdict.user # 0 =>
           /\ sent[verdict.user] <= 120 => verdict.status = 200
           /\ sent[verdict.user] = 121 =>
                  /\ verdict.status = 429
                  /\ verdict.detail # << >>
                  /\ verdict.detail[1] = "Rate limit exceeded. Try again in "
                  /\ verdict.detail[2] = verdict.retry_after
                  /\ verdict.retry_after > 0
                  /\ verdict.path = ExercisesPath
                  /\ verdict.header = ToString(verdict.retry_after)

C19_Witness ==
    /\ verdict.user = 1
    /\ verdict.status = 429
    /\ sent[1] = 121
    /\ sent[2] = 120

\* C20: while the limiter's storage is unreachable every request passes
\* the limiter -- no 429 and no 5xx -- whatever the counter of its key.
C20_FailOpen ==
    (~storeUp /\ verdict.user # 0) => verdict.status = 200

C20_Witness ==
    /\ ~storeUp
    /\ verdict.user = 1
    /\ verdict.status = 200
    /\ hits[QuotaKey(1)] > ReadExercisesLimit.count

(***************************************************************************)
(* Properties of the cleanup sweep.                                        *)
(***************************************************************************)
SweepCompleted == sweep.pc = "done" /\ sweepResult.kind = "completed"

SweepFailed ==
    /\ sweep.pc = "done"
    /\ sweepResult.kind \in {"unavailable", "unreachable", "error"}

\* C22 (as stated): a sweep that found the store unreachable, at connect
\* time or in the middle of the scan, has not raised, has returned a zero
\* count and has closed the client it opened.
C22_ZeroOnUnreachable ==
    /\ sweepResult.kind # "raised"
    /\ sweep.pc = "done" => ~sweep.open
    /\ SweepFailed => sweepResult.deleted_idempotency_keys = 0

\* C22 (amended): a sweep that found the store unreachable has not raised
\* and has closed the client it opened; it has returned a zero count when
\* the failure was at connect time, and the number of keys it had deleted
\* before the failure when the failure was in the middle of the scan.
C22_NoRaiseCountSoFar ==
    /\ sweepResult.kind # "raised"
    /\ sweep.pc = "done" => ~sweep.open
    /\ sweepResult.kind \in {"unavailable", "unreachable"}
          => sweepResult.deleted_idempotency_keys = 0
    /\ sweepResult.kind = "error"
          => sweepResult.deleted_idempotency_keys = Cardinality(deletedKeys)

\* the store failed in the middle of the scan, after one key was deleted
C22_Witness ==
    /\ sweep.pc = "done"
    /\ sweepResult.kind = "error"
    /\ Cardinality(deletedKeys) = 1
    /\ ~sweep.open

\* C30: a sweep interleaved with a refresh run never makes the run process
\* an item whose key is still within its lifetime: while no key has expired
\* and every store call was answered, the run never starts processing an
\* item whose key the sweep deleted.
C30_SweepNeverReprocesses ==
    [][\A i \in Items :
          (/\ st[1][i] = "Acquired"
           /\ st'[1][i] = "Processing"
           /\ ~disturbed')
          => \A d \in deletedKeys :
                d[1] # IdempotencyName(IdempotencyKey(i, day))]_vars

ItemOps == {"read", "edit", "delete", "admin_delete"}

C24_DeletionRemovesData ==
    /\ \A e \in ExerciseIds :
          exercises[e].user_id # 0 => accounts[exercises[e].user_id].exists
    /\ ownerless = {}
    /\ reply.op = "list" => reply.items \cap ownerless = {}

(***************************************************************************)
(* Properties of sessions.                                                 *)
(***************************************************************************)
\* C26: a request with the still-valid access token of a login is decided
\* by the users row as it is at the request: 401 when the row is gone, 403
\* when it is disabled, and otherwise the row itself is handed on and the
\* admin endpoints look at the row's role.
C26_DecidedByCurrentRecord ==
    (issued.by = "login" /\ response # NoResponse) =>
        LET row == users[StrToId(issued.data.sub)]
        IN  IF ~row.exists THEN response.status = 401
            ELSE IF row.disabled
            THEN /\ response.status = 403
                 /\ response.detail = "User account is disabled"
            ELSE IF response.endpoint \in AdminEndpoints
            THEN IF row.role = "admin"
                 THEN response.status = 200 /\ response.user = row
                 ELSE response.status = 403
            ELSE response.status = 200 /\ response.user = row

\* the user signed in, the account was deleted, and the next request with
\* the token was answered 401
C26_Witness ==
    /\ issued.by = "login"
    /\ ~users[StrToId(issued.data.sub)].exists
    /\ response.status = 401

\* the token is one POST /auth/refresh accepts: signed with the service's
\* key, not expired, of type refresh, for a user that exists
Renewable ==
    /\ token.form = "jwt"
    /\ token.key = SECRET_KEY
    /\ token.payload.exp > clock
    /\ token.payload.type = "refresh"
    /\ StrToId(token.payload.sub) \in UserIds
    /\ users[StrToId(token.payload.sub)].exists

\* C27: every call of POST /auth/refresh with a refresh token that has not
\* expired, for a user that exists, mints a new pair, however often the
\* token was used before; any other token, one whose type is not refresh
\* included, is answered 401.
C27_RefreshNotSingleUse ==
    [][(renewal' # renewal \/ mints' # mints) =>
          IF Renewable
          THEN /\ renewal'.status = 200
               /\ mints' = mints + 1
               /\ renewal'.refresh_token.payload.type = "refresh"
               /\ renewal'.refresh_token.payload.sub = token.payload.sub
               /\ renewal'.access_token.payload.sub = token.payload.sub
               /\ renewal'.access_token.payload.role =
                     users[StrToId(token.payload.sub)].role
          ELSE /\ renewal'.status = 401
               /\ mints' = mints]_vars

\* the same refresh token has minted a second pair
C27_Witness ==
    /\ issued.by = "refresh"
    /\ mints = 2
    /\ renewal.status = 200

\* C29: a refresh token presented as the bearer token of a protected
\* endpoint is answered 401.
C29_RefreshTokenIsNoBearer ==
    (/\ token.form = "jwt"
     /\ token.payload.type = "refresh"
     /\ response # NoResponse)
    => response.status = 401

(***************************************************************************)
(* Properties of the enforced limits.                                      *)
(***************************************************************************)
\* @limiter.limit(...) of the route a request matches, for the routes among
\* Paths; NoLimit where no decorated route matches
DecoratedLimit(path, method) ==
    IF path = ExercisesPath /\ method = "GET" THEN ReadExercisesLimit
    ELSE IF path = ExercisesPath /\ method = "POST" THEN PerMinute(60)
    ELSE IF path = ExercisesPath \o << "/", "s", "e", "e", "d" >>
            /\ method = "POST"
    THEN PerMinute(5)
    ELSE IF path = AuthPrefix \o << "/", "l", "o", "g", "i", "n" >>
            /\ method = "POST"
    THEN RateLimitSettings.auth_limit
    ELSE IF path = AdminPrefix \o << "/", "u", "s", "e", "r", "s" >>
            /\ method = "GET"
    THEN RateLimitSettings.admin_limit
    ELSE IF path = << "/" >> /\ method = "GET"
    THEN RateLimitSettings.public_limit
    ELSE NoLimit

\* C28: the limit enforced on a request to a rate-limited route is the
\* limit get_rate_limit_for_request returns for the request and its key.
C28_EnforcedIsPolicy ==
    (limit # NoLimit /\ DecoratedLimit(call.path, call.method) # NoLimit)
    => DecoratedLimit(call.path, call.method) = limit

====
